---- MODULE Spec2Model ----
(***************************************************************************)
(* winreg-rs, src/types.rs: conversions between a raw registry value       *)
(* (RegValue: a type tag and a byte buffer) and Rust values.               *)
(*                                                                         *)
(* Representation of the data:                                             *)
(*   u8, u16       naturals below 2^8, 2^16                                *)
(*   Vec<u8>       sequence of bytes                                       *)
(*   String        sequence of Unicode scalar values (chars)               *)
(*   OsStr         sequence of u16 code units (possibly ill-formed UTF-16) *)
(*   u32, u64      sequence of 4 / 8 base-256 digits, most significant     *)
(*                 digit first (TLC integers are too narrow for the range) *)
(*   io::Result    record [ok, v, err]                                     *)
(***************************************************************************)
EXTENDS Integers, Sequences, FiniteSets, TLC

VARIABLES pc, origin, val, result

vars == <<pc, origin, val, result>>

-----------------------------------------------------------------------------
(* Bounds of the model *)

\* longest UTF-16 payload (in code units) of a value read from the store
MaxWords == 3
\* longest String / OsStr handed to an encoder (in chars / code units)
MaxChars == 3
\* most entries of a RegMultiSz
MaxEntries == 2
\* how many bytes a stored integer buffer may exceed the 64-bit width by
MaxExtra == 1

-----------------------------------------------------------------------------
(* Registry type tags (enums.rs re-exports the platform's values) *)

REG_NONE == 0
REG_SZ == 1
REG_EXPAND_SZ == 2
REG_BINARY == 3
REG_DWORD == 4
REG_DWORD_BIG_ENDIAN == 5
REG_LINK == 6
REG_MULTI_SZ == 7
REG_RESOURCE_LIST == 8
REG_FULL_RESOURCE_DESCRIPTOR == 9
REG_RESOURCE_REQUIREMENTS_LIST == 10
REG_QWORD == 11

\* winerror::ERROR_BAD_FILE_TYPE, the code every adapter reports for a tag
\* it does not accept
ERROR_BAD_FILE_TYPE == "ERROR_BAD_FILE_TYPE"

-----------------------------------------------------------------------------
(* io::Result *)

Ok(x) == [ok |-> TRUE, v |-> x, err |-> <<>>]

Err(e) == [ok |-> FALSE, v |-> <<>>, err |-> e]

\* werr!(code): Err(io::Error::from_raw_os_error(code))
werr(code) == Err(<<"os error", code>>)

\* the errors of the typed codec
MalformedValue == Err(<<"MalformedValue">>)

UnsupportedType == Err(<<"UnsupportedType">>)

\* the process dies on an invalid memory access instead of returning
Fault == Err(<<"fault">>)

RegValue(t, b) == [vtype |-> t, bytes |-> b]

-----------------------------------------------------------------------------
(* Sequences *)

RECURSIVE SeqsUpTo(_, _)
SeqsUpTo(S, n) ==
    IF n = 0 THEN {<<>>}
    ELSE LET shorter == SeqsUpTo(S, n - 1)
         IN  shorter \cup {Append(s, x) : s \in {t \in shorter : Len(t) = n - 1}, x \in S}

SeqsOfLen(S, n) == {s \in SeqsUpTo(S, n) : Len(s) = n}

Reverse(s) == [i \in 1..Len(s) |-> s[Len(s) + 1 - i]]

Prefix(s, n) == SubSeq(s, 1, n)

-----------------------------------------------------------------------------
(* UTF-16 *)

IsHighSurrogate(w) == w >= 55296 /\ w <= 56319

IsLowSurrogate(w) == w >= 56320 /\ w <= 57343

\* String::from_utf16_lossy: a surrogate pair becomes one supplementary
\* char, every unpaired surrogate becomes U+FFFD
RECURSIVE from_utf16_lossy(_)
from_utf16_lossy(w) ==
    IF w = <<>> THEN <<>>
    ELSE IF IsHighSurrogate(w[1]) /\ Len(w) >= 2 /\ IsLowSurrogate(w[2])
         THEN <<65536 + (w[1] - 55296) * 1024 + (w[2] - 56320)>>
              \o from_utf16_lossy(Tail(Tail(w)))
    ELSE IF IsHighSurrogate(w[1]) \/ IsLowSurrogate(w[1])
         THEN <<65533>> \o from_utf16_lossy(Tail(w))
    ELSE <<w[1]>> \o from_utf16_lossy(Tail(w))

\* OsStr::new(s).encode_wide() for a str: the UTF-16 encoding of its chars
RECURSIVE encode_wide(_)
encode_wide(s) ==
    IF s = <<>> THEN <<>>
    ELSE IF s[1] < 65536 THEN <<s[1]>> \o encode_wide(Tail(s))
    ELSE <<55296 + ((s[1] - 65536) \div 1024), 56320 + ((s[1] - 65536) % 1024)>>
         \o encode_wide(Tail(s))

\* to_utf16 (lib.rs): the code units of the text, chained with one 0
to_utf16(s) == encode_wide(s) \o <<0>>

\* v16_to_v8 (lib.rs): the memory of the u16 slice, byte by byte; the
\* targets of the crate (Windows) are little-endian
v16_to_v8(w) ==
    [i \in 1..(2 * Len(w)) |->
        IF i % 2 = 1 THEN w[(i + 1) \div 2] % 256 ELSE w[i \div 2] \div 256]

\* slice::from_raw_parts(bytes.as_ptr() as *const u16, bytes.len() / 2):
\* the buffer read as native u16s; a last odd byte is outside the slice
words_of(bytes) ==
    [i \in 1..(Len(bytes) \div 2) |-> bytes[2 * i - 1] + 256 * bytes[2 * i]]

\* while s.ends_with('\u{0}') {s.pop();}
RECURSIVE pop_trailing_nulls(_)
pop_trailing_nulls(s) ==
    IF s # <<>> /\ s[Len(s)] = 0
    THEN pop_trailing_nulls(SubSeq(s, 1, Len(s) - 1))
    ELSE s

\* s.replace("\u{0}", "\n")
replace_nulls(s) == [i \in 1..Len(s) |-> IF s[i] = 0 THEN 10 ELSE s[i]]

-----------------------------------------------------------------------------
(* FromRegValue *)

\* a plausible slip: `if` in place of `while`, one null popped at most
String_from_reg_value_PopOnce(v) ==
    IF v.vtype \in {REG_SZ, REG_EXPAND_SZ, REG_MULTI_SZ}
    THEN LET s0 == from_utf16_lossy(words_of(v.bytes))
             s  == IF s0 # <<>> /\ s0[Len(s0)] = 0
                   THEN SubSeq(s0, 1, Len(s0) - 1) ELSE s0
         IN  IF v.vtype = REG_MULTI_SZ THEN Ok(replace_nulls(s)) ELSE Ok(s)
    ELSE werr(ERROR_BAD_FILE_TYPE)

\* a plausible slip: nulls replaced before the trailing ones are popped
String_from_reg_value_ReplaceFirst(v) ==
    IF v.vtype \in {REG_SZ, REG_EXPAND_SZ, REG_MULTI_SZ}
    THEN LET s0 == from_utf16_lossy(words_of(v.bytes))
         IN  IF v.vtype = REG_MULTI_SZ
             THEN Ok(pop_trailing_nulls(replace_nulls(s0)))
             ELSE Ok(pop_trailing_nulls(s0))
    ELSE werr(ERROR_BAD_FILE_TYPE)

\* a plausible slip: the REG_MULTI_SZ test left out, nulls always replaced
String_from_reg_value_AlwaysReplace(v) ==
    IF v.vtype \in {REG_SZ, REG_EXPAND_SZ, REG_MULTI_SZ}
    THEN Ok(replace_nulls(pop_trailing_nulls(from_utf16_lossy(words_of(v.bytes)))))
    ELSE werr(ERROR_BAD_FILE_TYPE)

\* impl FromRegValue for String
String_from_reg_value(v) ==
    IF v.vtype \in {REG_SZ, REG_EXPAND_SZ, REG_MULTI_SZ}
    THEN LET s == pop_trailing_nulls(from_utf16_lossy(words_of(v.bytes)))
         IN  IF v.vtype = REG_MULTI_SZ THEN Ok(replace_nulls(s)) ELSE Ok(s)
    ELSE werr(ERROR_BAD_FILE_TYPE)

\* impl FromRegValue for OsString: OsString::from_wide keeps every unit
OsString_from_reg_value(v) ==
    IF v.vtype \in {REG_SZ, REG_EXPAND_SZ, REG_MULTI_SZ}
    THEN Ok(words_of(v.bytes))
    ELSE werr(ERROR_BAD_FILE_TYPE)

\* bytes a read past the end of the buffer may find
GarbageBytes == {0, 255}

\* *(bytes.as_ptr() as *const uN): the first width bytes at the pointer,
\* read as a native (little-endian) integer.  No length is tested: when the
\* buffer is shorter the read runs past its end, which either faults or
\* finds whatever bytes lie there.
deref_outcomes(bytes, width) ==
    IF Len(bytes) >= width
    THEN {Ok(Reverse(Prefix(bytes, width)))}
    ELSE {Fault} \cup
         {Ok(Reverse(bytes \o g)) : g \in SeqsOfLen(GarbageBytes, width - Len(bytes))}

\* a plausible slip: both DWORD tags accepted
u32_from_reg_value_AnyDword(v) ==
    IF v.vtype \in {REG_DWORD, REG_DWORD_BIG_ENDIAN}
    THEN deref_outcomes(v.bytes, 4)
    ELSE {werr(ERROR_BAD_FILE_TYPE)}

\* impl FromRegValue for u32: the set of outcomes of the call
u32_from_reg_value(v) ==
    IF v.vtype = REG_DWORD
    THEN deref_outcomes(v.bytes, 4)
    ELSE {werr(ERROR_BAD_FILE_TYPE)}

\* impl FromRegValue for u64: the set of outcomes of the call
u64_from_reg_value(v) ==
    IF v.vtype = REG_QWORD
    THEN deref_outcomes(v.bytes, 8)
    ELSE {werr(ERROR_BAD_FILE_TYPE)}

-----------------------------------------------------------------------------
(* ToRegValue *)

\* impl ToRegValue for String
String_to_reg_value(s) == RegValue(REG_SZ, v16_to_v8(to_utf16(s)))

\* impl<'a> ToRegValue for &'a str
str_to_reg_value(s) == RegValue(REG_SZ, v16_to_v8(to_utf16(s)))

\* a plausible slip: a terminator appended as for str
OsStr_to_reg_value_Terminated(w) == RegValue(REG_SZ, v16_to_v8(w \o <<0>>))

\* impl<'a> ToRegValue for &'a OsStr: encode_wide() gives the units back
OsStr_to_reg_value(w) == RegValue(REG_SZ, v16_to_v8(w))

\* slice::from_raw_parts(n as *const uN as *const u8, N/8): the memory of
\* the integer, least significant byte first on the little-endian targets
native_bytes(n) == Reverse(n)

\* a plausible slip: the bytes written most significant first
u32_to_reg_value_BigEndian(n) == RegValue(REG_DWORD, n)

\* impl ToRegValue for u32
u32_to_reg_value(n) == RegValue(REG_DWORD, native_bytes(n))

\* impl ToRegValue for u64
u64_to_reg_value(n) == RegValue(REG_QWORD, native_bytes(n))

-----------------------------------------------------------------------------
(* StronglyTypedRegistryData *)

Typed(variant, payload) == [variant |-> variant, payload |-> payload]

TextVariants == {"RegSz", "RegExpandSz", "RegLink"}

BlobVariants ==
    {"RegBinary", "RegResourceList", "RegFullResourceDescriptor",
     "RegResourceRequirementsList"}

DwordVariants == {"RegDwordLittleEndian", "RegDwordBigEndian"}

\* a plausible slip: a copied arm left with the tag of the arm above it
discriminant_LinkAsSz(t) ==
    CASE t.variant = "RegNone" -> REG_NONE
      [] t.variant = "RegSz" -> REG_SZ
      [] t.variant = "RegExpandSz" -> REG_EXPAND_SZ
      [] t.variant = "RegBinary" -> REG_BINARY
      [] t.variant = "RegDwordLittleEndian" -> REG_DWORD
      [] t.variant = "RegDwordBigEndian" -> REG_DWORD_BIG_ENDIAN
      [] t.variant = "RegLink" -> REG_SZ
      [] t.variant = "RegMultiSz" -> REG_MULTI_SZ
      [] t.variant = "RegResourceList" -> REG_RESOURCE_LIST
      [] t.variant = "RegFullResourceDescriptor" -> REG_FULL_RESOURCE_DESCRIPTOR
      [] t.variant = "RegResourceRequirementsList" -> REG_RESOURCE_REQUIREMENTS_LIST
      [] t.variant = "RegQword" -> REG_QWORD

\* StronglyTypedRegistryData::discriminant
discriminant(t) ==
    CASE t.variant = "RegNone" -> REG_NONE
      [] t.variant = "RegSz" -> REG_SZ
      [] t.variant = "RegExpandSz" -> REG_EXPAND_SZ
      [] t.variant = "RegBinary" -> REG_BINARY
      [] t.variant = "RegDwordLittleEndian" -> REG_DWORD
      [] t.variant = "RegDwordBigEndian" -> REG_DWORD_BIG_ENDIAN
      [] t.variant = "RegLink" -> REG_LINK
      [] t.variant = "RegMultiSz" -> REG_MULTI_SZ
      [] t.variant = "RegResourceList" -> REG_RESOURCE_LIST
      [] t.variant = "RegFullResourceDescriptor" -> REG_FULL_RESOURCE_DESCRIPTOR
      [] t.variant = "RegResourceRequirementsList" -> REG_RESOURCE_REQUIREMENTS_LIST
      [] t.variant = "RegQword" -> REG_QWORD

\* the variant a tag stands for, "" for a tag outside the table
variant_of(tag) ==
    CASE tag = REG_NONE -> "RegNone"
      [] tag = REG_SZ -> "RegSz"
      [] tag = REG_EXPAND_SZ -> "RegExpandSz"
      [] tag = REG_BINARY -> "RegBinary"
      [] tag = REG_DWORD -> "RegDwordLittleEndian"
      [] tag = REG_DWORD_BIG_ENDIAN -> "RegDwordBigEndian"
      [] tag = REG_LINK -> "RegLink"
      [] tag = REG_MULTI_SZ -> "RegMultiSz"
      [] tag = REG_RESOURCE_LIST -> "RegResourceList"
      [] tag = REG_FULL_RESOURCE_DESCRIPTOR -> "RegFullResourceDescriptor"
      [] tag = REG_RESOURCE_REQUIREMENTS_LIST -> "RegResourceRequirementsList"
      [] tag = REG_QWORD -> "RegQword"
      [] OTHER -> ""

\* multi-string encode: every entry null-terminated, in order, then one
\* more null as the end marker
RECURSIVE multi_sz_units(_)
multi_sz_units(entries) ==
    IF entries = <<>> THEN <<0>>
    ELSE to_utf16(entries[1]) \o multi_sz_units(Tail(entries))

\* split on U+0000: the pieces between the nulls, in order
RECURSIVE split_on_null(_, _)
split_on_null(s, cur) ==
    IF s = <<>> THEN <<cur>>
    ELSE IF s[1] = 0 THEN <<cur>> \o split_on_null(Tail(s), <<>>)
    ELSE split_on_null(Tail(s), Append(cur, s[1]))

\* multi-string decode: trailing nulls trimmed, nothing left is no string
\* at all, otherwise the pieces between the remaining nulls
multi_sz_entries(s) ==
    LET t == pop_trailing_nulls(s)
    IN  IF t = <<>> THEN <<>> ELSE split_on_null(t, <<>>)

\* encode(typed) -> RawValue: the tag of the variant and its wire bytes
encode(t) ==
    RegValue(discriminant(t),
        CASE t.variant = "RegNone" -> <<>>
          [] t.variant \in TextVariants -> v16_to_v8(to_utf16(t.payload))
          [] t.variant \in BlobVariants -> t.payload
          [] t.variant = "RegDwordLittleEndian" -> Reverse(t.payload)
          [] t.variant = "RegDwordBigEndian" -> t.payload
          [] t.variant = "RegQword" -> Reverse(t.payload)
          [] t.variant = "RegMultiSz" -> v16_to_v8(multi_sz_units(t.payload)))

\* decode(raw) -> Result<TypedValue>, dispatching on the tag
decode(v) ==
    LET variant == variant_of(v.vtype)
        text    == from_utf16_lossy(words_of(v.bytes))
    IN  CASE variant = "" -> UnsupportedType
          [] variant = "RegNone" -> Ok(Typed(variant, <<>>))
          [] variant \in TextVariants ->
                IF Len(v.bytes) % 2 = 1 THEN MalformedValue
                ELSE Ok(Typed(variant, pop_trailing_nulls(text)))
          [] variant = "RegMultiSz" ->
                IF Len(v.bytes) % 2 = 1 THEN MalformedValue
                ELSE Ok(Typed(variant, multi_sz_entries(text)))
          [] variant \in BlobVariants -> Ok(Typed(variant, v.bytes))
          [] variant = "RegDwordLittleEndian" ->
                IF Len(v.bytes) # 4 THEN MalformedValue
                ELSE Ok(Typed(variant, Reverse(v.bytes)))
          [] variant = "RegDwordBigEndian" ->
                IF Len(v.bytes) # 4 THEN MalformedValue
                ELSE Ok(Typed(variant, v.bytes))
          [] variant = "RegQword" ->
                IF Len(v.bytes) # 8 THEN MalformedValue
                ELSE Ok(Typed(variant, Reverse(v.bytes)))

-----------------------------------------------------------------------------
(* Inputs *)

\* type tags a stored value may carry: the table, and two outside it
Tags == (0..12) \cup {999}

\* U+0000, '\n', 'a', U+1F600 (outside the basic plane)
Chars == {0, 10, 97, 128512}

\* code units: U+0000, '\n', 'a', a high and a low surrogate
Units == {0, 10, 97, 55357, 56832}

Strings == SeqsUpTo(Chars, MaxChars)

OsStrs == SeqsUpTo(Units, MaxChars)

\* 0, 1, 0x01020304, 0x7FFFFFFF, 0x80000000, 0xFFFFFFFF
U32Values ==
    {<<0, 0, 0, 0>>, <<0, 0, 0, 1>>, <<1, 2, 3, 4>>, <<127, 255, 255, 255>>,
     <<128, 0, 0, 0>>, <<255, 255, 255, 255>>}

\* 0, 1, 0x0102030405060708, 2^32, 2^63, 2^64 - 1
U64Values ==
    {<<0, 0, 0, 0, 0, 0, 0, 0>>, <<0, 0, 0, 0, 0, 0, 0, 1>>,
     <<1, 2, 3, 4, 5, 6, 7, 8>>, <<0, 0, 0, 1, 0, 0, 0, 0>>,
     <<128, 0, 0, 0, 0, 0, 0, 0>>,
     <<255, 255, 255, 255, 255, 255, 255, 255>>}

Blobs == SeqsUpTo({0, 97}, 2)

\* "", "\0", "a", "b", "data"
Entries == SeqsUpTo({0, 97, 98}, 1) \cup {<<100, 97, 116, 97>>}

MultiSzPayloads == SeqsUpTo(Entries, MaxEntries)

\* a longer stored payload: "a\0a" and three trailing nulls
LongPayloads == {<<97, 0, 97, 0, 0, 0>>}

\* stored buffers of UTF-16 text, some with a stray last byte
TextBuffers ==
    {v16_to_v8(w) \o x :
        w \in SeqsUpTo(Units, MaxWords) \cup LongPayloads, x \in {<<>>, <<97>>}}

\* stored buffers of integers: cut short, exact, or too long
IntBuffers ==
    {Prefix(native_bytes(n) \o [i \in 1..MaxExtra |-> 7], k) :
        n \in U64Values, k \in 0..(8 + MaxExtra)}

StoredValues == {RegValue(t, b) : t \in Tags, b \in TextBuffers \cup IntBuffers}

-----------------------------------------------------------------------------
(* The caller: it holds an input, turns it into a RegValue or reads one    *)
(* from the store, and converts the RegValue it holds.                     *)

Input(kind, x) == [from |-> kind, v |-> x]

NoValue == RegValue(REG_NONE, <<>>)

NoResult == [op |-> "none", r |-> Err(<<>>)]

Init ==
    /\ result = NoResult
    /\ \/ /\ pc = "raw"
          /\ val \in StoredValues
          /\ origin = Input("store", <<>>)
       \/ /\ pc = "input"
          /\ val = NoValue
          /\ \/ \E s \in Strings : origin = Input("String", s)
             \/ \E s \in Strings : origin = Input("str", s)
             \/ \E w \in OsStrs : origin = Input("OsStr", w)
             \/ \E n \in U32Values : origin = Input("u32", n)
             \/ \E n \in U64Values : origin = Input("u64", n)
             \/ origin = Input("Typed", Typed("RegNone", <<>>))
             \/ \E k \in TextVariants, s \in Strings :
                    origin = Input("Typed", Typed(k, s))
             \/ \E k \in BlobVariants, b \in Blobs :
                    origin = Input("Typed", Typed(k, b))
             \/ \E k \in DwordVariants, n \in U32Values :
                    origin = Input("Typed", Typed(k, n))
             \/ \E n \in U64Values : origin = Input("Typed", Typed("RegQword", n))
             \/ \E l \in MultiSzPayloads :
                    origin = Input("Typed", Typed("RegMultiSz", l))

\* x.to_reg_value() of the input held
Encoded(kind, rv) ==
    /\ pc = "input"
    /\ origin.from = kind
    /\ val' = rv
    /\ pc' = "raw"
    /\ UNCHANGED <<origin, result>>

\* T::from_reg_value(&val) of the value held, ending in outcome r
Decoded(name, r) ==
    /\ pc = "raw"
    /\ result' = [op |-> name, r |-> r]
    /\ pc' = "done"
    /\ UNCHANGED <<origin, val>>

StringToRegValue == Encoded("String", String_to_reg_value(origin.v))

StrToRegValue == Encoded("str", str_to_reg_value(origin.v))

OsStrToRegValue == Encoded("OsStr", OsStr_to_reg_value(origin.v))

U32ToRegValue == Encoded("u32", u32_to_reg_value(origin.v))

U64ToRegValue == Encoded("u64", u64_to_reg_value(origin.v))

TypedEncode == Encoded("Typed", encode(origin.v))

TypedDiscriminant ==
    /\ pc = "input"
    /\ origin.from = "Typed"
    /\ result' = [op |-> "discriminant", r |-> Ok(discriminant(origin.v))]
    /\ pc' = "tagged"
    /\ UNCHANGED <<origin, val>>

StringFromRegValue == Decoded("String", String_from_reg_value(val))

OsStringFromRegValue == Decoded("OsString", OsString_from_reg_value(val))

U32FromRegValue == \E r \in u32_from_reg_value(val) : Decoded("u32", r)

U64FromRegValue == \E r \in u64_from_reg_value(val) : Decoded("u64", r)

TypedDecode == Decoded("Typed", decode(val))

Next ==
    \/ StringToRegValue
    \/ StrToRegValue
    \/ OsStrToRegValue
    \/ U32ToRegValue
    \/ U64ToRegValue
    \/ TypedEncode
    \/ TypedDiscriminant
    \/ StringFromRegValue
    \/ OsStringFromRegValue
    \/ U32FromRegValue
    \/ U64FromRegValue
    \/ TypedDecode

Spec == Init /\ [][Next]_vars

-----------------------------------------------------------------------------
(* Properties *)

\* the call named op has returned
Returned(op) == pc \in {"done", "tagged"} /\ result.op = op

\* the RegValue held was made from an input of this kind
MadeFrom(kind) == pc \in {"raw", "done"} /\ origin.from = kind

HasNull(s) == \E i \in 1..Len(s) : s[i] = 0

EndsWithNull(s) == s # <<>> /\ s[Len(s)] = 0

\* s without its trailing run of nulls, as the longest prefix that does
\* not end with one
WithoutTrailingNulls(s) ==
    LET n == CHOOSE k \in 0..Len(s) :
                /\ \A i \in (k + 1)..Len(s) : s[i] = 0
                /\ k > 0 => s[k] # 0
    IN  SubSeq(s, 1, n)

\* the text of the buffer held, before any trimming
DecodedText == from_utf16_lossy(words_of(val.bytes))

\* the platform's table of registry type tags
PlatformTag(variant) ==
    CASE variant = "RegNone" -> 0
      [] variant = "RegSz" -> 1
      [] variant = "RegExpandSz" -> 2
      [] variant = "RegBinary" -> 3
      [] variant = "RegDwordLittleEndian" -> 4
      [] variant = "RegDwordBigEndian" -> 5
      [] variant = "RegLink" -> 6
      [] variant = "RegMultiSz" -> 7
      [] variant = "RegResourceList" -> 8
      [] variant = "RegFullResourceDescriptor" -> 9
      [] variant = "RegResourceRequirementsList" -> 10
      [] variant = "RegQword" -> 11

Variants ==
    {"RegNone", "RegMultiSz", "RegQword"} \cup TextVariants \cup BlobVariants
    \cup DwordVariants

\* C1: discriminant() returns the platform's tag of the variant (None=0,
\* Sz=1, ExpandSz=2, Binary=3, DwordLittleEndian=4, DwordBigEndian=5, Link=6,
\* MultiSz=7, ResourceList=8, FullResourceDescriptor=9,
\* ResourceRequirementsList=10, Qword=11) whatever the payload is, and no
\* value of another variant has the same tag.
C1_DiscriminantIsPlatformTag ==
    Returned("discriminant") =>
        /\ result.r.ok
        /\ result.r.v = PlatformTag(origin.v.variant)
        /\ \A k \in Variants \ {origin.v.variant} :
              discriminant(Typed(k, origin.v.payload)) # result.r.v

\* C1 witness: the tag of a RegLink with a payload has been asked for
C1_Witness ==
    /\ Returned("discriminant")
    /\ origin.v.variant = "RegLink"
    /\ origin.v.payload # <<>>
    /\ result.r.v = 6

\* C2 (as claimed): decode(encode(v)) = v for every typed value v that is
\* not a Binary or resource-list kind and not the MultiSz [""].
C2_RoundTrip ==
    ( /\ Returned("Typed")
      /\ origin.from = "Typed"
      /\ origin.v.variant \notin BlobVariants
      /\ ~(origin.v.variant = "RegMultiSz" /\ origin.v.payload = <<<<>>>>) )
    => /\ result.r.ok
       /\ result.r.v.variant = origin.v.variant
       /\ result.r.v.payload = origin.v.payload

\* C3 (as claimed): decoding a REG_DWORD value whose buffer is not 4 bytes,
\* or a REG_QWORD value whose buffer is not 8 bytes, fails (with
\* MalformedValue; any failure is accepted here) and never yields an integer.
C3_WidthMismatchFails ==
    /\ (Returned("u32") /\ val.vtype = REG_DWORD /\ Len(val.bytes) # 4)
          => ~result.r.ok
    /\ (Returned("u64") /\ val.vtype = REG_QWORD /\ Len(val.bytes) # 8)
          => ~result.r.ok

\* C4 (as claimed): decoding an SZ, EXPAND_SZ or MULTI_SZ value with a
\* buffer of odd length into text fails (with MalformedValue; any failure
\* is accepted here): it never drops the last byte and succeeds.
C4_OddLengthFails ==
    ( /\ Returned("String") \/ Returned("OsString")
      /\ val.vtype \in {1, 2, 7}
      /\ Len(val.bytes) % 2 = 1 )
    => ~result.r.ok

\* C5: an adapter fails with the type-mismatch error exactly for the tags
\* outside its accept set: {SZ, EXPAND_SZ, MULTI_SZ} for text, {DWORD} for
\* 32-bit (DWORD_BIG_ENDIAN is rejected), {QWORD} for 64-bit; tags outside
\* the table included.
C5_TypeMismatchExactlyOutsideAcceptSet ==
    /\ (Returned("String") \/ Returned("OsString")) =>
          (result.r = werr(ERROR_BAD_FILE_TYPE) <=> val.vtype \notin {1, 2, 7})
    /\ Returned("u32") =>
          (result.r = werr(ERROR_BAD_FILE_TYPE) <=> val.vtype # 4)
    /\ Returned("u64") =>
          (result.r = werr(ERROR_BAD_FILE_TYPE) <=> val.vtype # 11)

\* C5 witness: a well-formed 4-byte DWORD_BIG_ENDIAN value was refused by
\* the 32-bit adapter
C5_Witness ==
    /\ Returned("u32")
    /\ val.vtype = 5
    /\ Len(val.bytes) = 4
    /\ result.r = werr(ERROR_BAD_FILE_TYPE)

\* C6 (as claimed): the text decoded into String never ends with a null,
\* and contains no null at all unless the value was a MultiSz.
C6_NoNullUnlessMultiSz ==
    (Returned("String") /\ result.r.ok) =>
        /\ ~EndsWithNull(result.r.v)
        /\ HasNull(result.r.v) => val.vtype = REG_MULTI_SZ

\* C6 (amended): the text decoded into String never ends with a null,
\* however many the payload ends with; it contains no null at all when the
\* value was a MultiSz, and for SZ and EXPAND_SZ it contains a null exactly
\* when the payload has one before its trailing run of nulls.
C6_TrailingNullsTrimmed ==
    (Returned("String") /\ result.r.ok) =>
        /\ ~EndsWithNull(result.r.v)
        /\ val.vtype = REG_MULTI_SZ => ~HasNull(result.r.v)
        /\ val.vtype \in {REG_SZ, REG_EXPAND_SZ} =>
              (HasNull(result.r.v) <=> HasNull(WithoutTrailingNulls(DecodedText)))

\* C6 witness: the SZ payload a 0 a 0 0 0, which ends with three nulls and
\* has one before them, has been decoded to "a\0a"
C6_Witness ==
    /\ Returned("String")
    /\ val.vtype = REG_SZ
    /\ words_of(val.bytes) = <<97, 0, 97, 0, 0, 0>>
    /\ result.r.v = <<97, 0, 97>>

\* the entries of a multi-string: the pieces between its nulls
RECURSIVE EntriesBetweenNulls(_)
EntriesBetweenNulls(s) ==
    IF ~HasNull(s) THEN <<s>>
    ELSE LET i == CHOOSE j \in 1..Len(s) : s[j] = 0 /\ \A k \in 1..(j - 1) : s[k] # 0
         IN  <<SubSeq(s, 1, i - 1)>> \o EntriesBetweenNulls(SubSeq(s, i + 1, Len(s)))

\* the entries in order, one newline between consecutive ones
RECURSIVE JoinedByNewline(_)
JoinedByNewline(entries) ==
    IF Len(entries) = 1 THEN entries[1]
    ELSE entries[1] \o <<10>> \o JoinedByNewline(Tail(entries))

\* C7: a MULTI_SZ value decoded into String is its entries (the pieces
\* between the nulls left after the trailing ones are trimmed), in order,
\* with one newline between consecutive entries: no null remains and nothing
\* is added at the end; an SZ or EXPAND_SZ value is left as trimmed.
C7_MultiSzJoinedByNewline ==
    Returned("String") =>
        /\ val.vtype = 7 =>
              /\ result.r.ok
              /\ result.r.v =
                    JoinedByNewline(EntriesBetweenNulls(WithoutTrailingNulls(DecodedText)))
              /\ Len(result.r.v) = Len(WithoutTrailingNulls(DecodedText))
              /\ ~HasNull(result.r.v)
        /\ val.vtype \in {1, 2} =>
              /\ result.r.ok
              /\ result.r.v = WithoutTrailingNulls(DecodedText)

\* C7 witness: the MULTI_SZ payload a 0 a 0 0 has been decoded to "a\na"
C7_Witness ==
    /\ Returned("String")
    /\ val.vtype = 7
    /\ words_of(val.bytes) = <<97, 0, 97>>
    /\ result.r.v = <<97, 10, 97>>

\* the number of UTF-16 code units of a text
RECURSIVE Utf16Len(_)
Utf16Len(s) ==
    IF s = <<>> THEN 0
    ELSE (IF s[1] >= 65536 THEN 2 ELSE 1) + Utf16Len(Tail(s))

\* C8: a text encoded through an adapter has tag SZ (1); from a String or
\* &str the bytes are the UTF-16 code units of the text and then one null
\* code unit, 2 * (code units + 1) bytes in all; from an OsStr the bytes are
\* the wide code units of the input and nothing more.
C8_TextEncode ==
    /\ (MadeFrom("String") \/ MadeFrom("str")) =>
          /\ val.vtype = 1
          /\ Len(val.bytes) = 2 * (Utf16Len(origin.v) + 1)
          /\ words_of(val.bytes)[Utf16Len(origin.v) + 1] = 0
          /\ from_utf16_lossy(SubSeq(words_of(val.bytes), 1, Utf16Len(origin.v)))
                = origin.v
    /\ MadeFrom("OsStr") =>
          /\ val.vtype = 1
          /\ Len(val.bytes) = 2 * Len(origin.v)
          /\ \A i \in 1..Len(origin.v) :
                val.bytes[2 * i - 1] + 256 * val.bytes[2 * i] = origin.v[i]

\* C8 witness: an OsStr that does not end with a null has been encoded
C8_Witness ==
    /\ MadeFrom("OsStr")
    /\ origin.v # <<>>
    /\ ~EndsWithNull(origin.v)
    /\ pc = "raw"

\* C9: an integer is encoded as exactly 4 bytes with tag DWORD (4), or 8
\* bytes with tag QWORD (11), least significant byte first: byte i carries
\* the digit of weight 256^(i-1); 0x01020304 gives [04,03,02,01], while the
\* big-endian Dword kind gives [01,02,03,04].
C9_IntegerEncodeLittleEndian ==
    /\ MadeFrom("u32") =>
          /\ val.vtype = 4
          /\ Len(val.bytes) = 4
          /\ \A i \in 1..4 : val.bytes[i] = origin.v[5 - i]
          /\ origin.v = <<1, 2, 3, 4>> => val.bytes = <<4, 3, 2, 1>>
    /\ MadeFrom("u64") =>
          /\ val.vtype = 11
          /\ Len(val.bytes) = 8
          /\ \A i \in 1..8 : val.bytes[i] = origin.v[9 - i]
    /\ (MadeFrom("Typed") /\ origin.v.variant = "RegDwordBigEndian") =>
          /\ val.vtype = 5
          /\ val.bytes = origin.v.payload

\* C9 witness: the u32 0x01020304 has been encoded
C9_Witness ==
    /\ MadeFrom("u32")
    /\ origin.v = <<1, 2, 3, 4>>
    /\ val.bytes = <<4, 3, 2, 1>>

\* C10: a String encoded and decoded again comes back without its trailing
\* nulls, so unchanged when it does not end with one (nulls and newlines
\* inside it are kept); a u32 or u64 encoded and decoded again comes back
\* unchanged.
C10_AdapterRoundTrip ==
    /\ (Returned("String") /\ origin.from = "String") =>
          /\ result.r.ok
          /\ result.r.v = WithoutTrailingNulls(origin.v)
          /\ ~EndsWithNull(origin.v) => result.r.v = origin.v
    /\ (Returned("u32") /\ origin.from = "u32") => result.r = Ok(origin.v)
    /\ (Returned("u64") /\ origin.from = "u64") => result.r = Ok(origin.v)

\* C10 witness: a String with a null and a newline inside it has made the
\* round trip
C10_Witness ==
    /\ Returned("String")
    /\ origin.from = "String"
    /\ origin.v = <<0, 10, 97>>
    /\ result.r.v = origin.v

====
